---- MODULE Spec2Model ----
(***************************************************************************)
(* Model of the useObjectDetection hook (src/src/hooks/useObjectDetection.ts). *)
(*                                                                         *)
(* The hook is a React function component hook: `mode' is a prop,          *)
(* `detections' and `isProcessing' are React state, workerRef, streamRef   *)
(* and intervalRef are refs.  processFrame and startDetection are          *)
(* useCallback closures: a call of startDetection captures the `mode' and  *)
(* `isProcessing' of the render it was created in, and the interval timer  *)
(* it creates keeps calling THAT processFrame closure for ever.            *)
(*                                                                         *)
(* Numbers: scores and coordinates are fixed point, in thousandths         *)
(* (0.93 is 930); timestamps are milliseconds as returned by Date.now().   *)
(***************************************************************************)
EXTENDS Integers, Sequences, FiniteSets, Bags, TLC

\* ------------------------------------------------------------------ bounds
MaxTimers == 3       \* video elements and interval timers alive at once
MaxClockSteps == 2   \* how often the clock advances
MaxInFlight == 2     \* submissions awaiting their completion, per backend
MaxWorkers == 2      \* workers alive at once


\* ------------------------------------------------------- program constants
Modes == {"wasm", "server"}
Streams == {"stream"}
NoStream == "null"
NoWorker == 0
\* setInterval(..., 1000 / 15): the delay is truncated to whole milliseconds
Period == 1000 \div 15
\* The clock advances one timer period at a time.
ClockStep == Period

VARIABLES
  mode,          \* the hook's argument in the latest render
  mounted,       \* the component using the hook is mounted
  detections,    \* useState<Detection[]>
  isProcessing,  \* useState(false)
  workerRef,     \* workerRef.current: a worker id or NoWorker
  liveWorkers,   \* workers constructed and not yet terminated
  streamRef,     \* streamRef.current
  liveStreams,   \* the media streams whose tracks have not been stopped
  timers,        \* bag of the active interval timers: the processFrame
                 \* closure (m, ip), whether a period has elapsed since
                 \* the timer last fired (due), and whether its handle is
                 \* the one held in intervalRef.current (current)
  pending,       \* bag of the startDetection calls awaiting
                 \* video.onloadedmetadata, each with its closure (m, ip)
  workerQueue,   \* messages posted to the live worker, not yet answered
  fetches,       \* requests to /api/detect awaiting their response, in the
                 \* order they were sent
  now,           \* Date.now()
  lastEvent      \* what the latest handler did

vars == << mode, mounted, detections, isProcessing, workerRef, liveWorkers,
           streamRef, liveStreams, timers, pending, workerQueue, fetches,
           now, lastEvent >>

\* intervalRef.current: the timer whose handle it holds; empty when it is null
intervalRef == { t \in BagToSet(timers) : t.current }

One(x) == SetToBag({x})

\* --------------------------------------------------------------- Detection
Det(label, score, xmin, ymin, xmax, ymax, fid, cts, rts, its) ==
  [ label |-> label, score |-> score, xmin |-> xmin, ymin |-> ymin,
    xmax |-> xmax, ymax |-> ymax, frame_id |-> fid, capture_ts |-> cts,
    recv_ts |-> rts, inference_ts |-> its ]

\* Math.random() in [0,1), in thousandths: the five draws of one fallback
\* batch are all at the low end or all at the high end of the range.
RandomSamples == {0, 999}
RandomDraws == { [ i \in 1..5 |-> x ] : x \in RandomSamples }

\* k + Math.random() * w, in thousandths
Rand(k, r, w) == k + (r * w) \div 1000

testDetections(t) ==
  << Det("person", 930, 100, 100, 400, 700, t,     t, t + 10, t + 25),
     Det("phone",  870, 500, 200, 700, 500, t + 1, t, t + 8,  t + 20),
     Det("bottle", 760, 750, 300, 900, 800, t + 2, t, t + 12, t + 30) >>

mockDetections(t, r) ==
  << Det("person", Rand(800, r[1], 150), Rand(150, r[2], 100),
         Rand(100, r[3], 100), Rand(400, r[4], 100), Rand(800, r[5], 100),
         t, t, t + 5, t + 35) >>

\* What the worker answers to one posted frame: { detections, processingTime }
\* with inferenceTs = recvTs + processingTime.
WorkerProcessingTimes == {20}
yoloWorkerReply(msg) ==
  { <<>> } \cup
  { << Det("person", 900, 100, 100, 400, 700, msg.frameId, msg.timestamp,
           msg.timestamp, msg.timestamp + p) >> : p \in WorkerProcessingTimes }

\* Bodies the endpoint may answer with on a 2xx response.  The endpoint is an
\* external collaborator: nothing constrains the values it sends: no
\* detections, a person found in the submitted frame, the very values of the
\* hook's placeholder detection, or values that are no valid Detection.
ServerBodies(f) ==
  { [ hasDetections |-> FALSE, detections |-> <<>> ],
    [ hasDetections |-> TRUE,  detections |-> <<>> ],
    [ hasDetections |-> TRUE,
      detections |-> << Det("person", 900, 100, 100, 400, 700,
                            f.ts, f.ts, f.ts, f.ts + 20) >> ],
    [ hasDetections |-> TRUE,
      detections |-> << Det("person", 800, 150, 100, 400, 800,
                            f.ts, f.ts, f.ts + 5, f.ts + 35) >> ],
    [ hasDetections |-> TRUE,
      detections |-> << Det("person", 1500, 600, 100, 400, 700,
                            0, 2, 1, 0) >> ] }

\* result.detections || []
ResultDetections(body) ==
  IF body.hasDetections THEN body.detections ELSE <<>>

\* A state setter of an unmounted component changes nothing.
SetDetectionsUnlessEmpty(d) ==
  IF mounted /\ d # <<>> THEN d ELSE detections
SetDetections(d) == IF mounted THEN d ELSE detections

\* The effect on [isProcessing], run after a render in which isProcessing
\* changed to ip: the test detections when processing starts, none otherwise.
IsProcessingEffectKeeping(ip) == IF ip THEN detections ELSE <<>>
IsProcessingEffect(ip) == IF ip THEN testDetections(now) ELSE <<>>

\* What a handler did, for the record in lastEvent.
Event(op, outcome) == [ op |-> op, outcome |-> outcome ]

\* -------------------------------------------------------------------- Init
\* The state after the first render and its effects: the mode effect has
\* constructed the worker when mode is 'wasm'.
Init ==
  /\ mode \in Modes
  /\ mounted = TRUE
  /\ detections = <<>>
  /\ isProcessing = FALSE
  /\ workerRef = IF mode = "wasm" THEN 1 ELSE NoWorker
  /\ liveWorkers = IF mode = "wasm" THEN {1} ELSE {}
  /\ streamRef = NoStream
  /\ liveStreams = Streams
  /\ timers = EmptyBag
  /\ pending = EmptyBag
  /\ workerQueue = <<>>
  /\ fetches = <<>>
  /\ now = 0
  /\ lastEvent = Event("mount", "none")

\* ----------------------------------------------------------------- actions
\* Time passes: one timer period elapses, so every active interval timer is
\* due again.
Advance ==
  /\ now + ClockStep <= MaxClockSteps * ClockStep
  /\ now' = now + ClockStep
  /\ timers' = BagOfAll(LAMBDA t : [ t EXCEPT !.due = TRUE ], timers)
  /\ lastEvent' = Event("advance", "none")
  /\ UNCHANGED << liveStreams, mode, mounted, detections, isProcessing, workerRef,
                  liveWorkers, streamRef, pending, workerQueue,
                  fetches >>

\* startDetection(null): `if (!stream) return;'
StartDetectionNull ==
  /\ mounted
  /\ lastEvent' = Event("startDetection(null)", "returned")
  /\ UNCHANGED << liveStreams, mode, mounted, detections, isProcessing, workerRef,
                  liveWorkers, streamRef, timers, pending,
                  workerQueue, fetches, now >>

\* startDetection(stream) up to its await: the caller uses the callback of the
\* latest render, whose processFrame closed over the current mode and
\* isProcessing.  The isProcessing effect runs when isProcessing changed.
StartDetection(stream) ==
  /\ mounted
  /\ BagCardinality(pending) + BagCardinality(timers) < MaxTimers
  /\ streamRef' = stream
  /\ isProcessing' = TRUE
  /\ pending' = pending (+) One([ m |-> mode, ip |-> isProcessing ])
  /\ detections' = IF isProcessing THEN detections
                                    ELSE IsProcessingEffect(TRUE)
  /\ lastEvent' = Event("startDetection", "awaiting")
  /\ UNCHANGED << liveStreams, mode, mounted, workerRef, liveWorkers, timers,
                  workerQueue, fetches, now >>

\* video.onloadedmetadata fires: the rest of startDetection creates the timer
\* and overwrites intervalRef.current with its handle.
MetadataLoaded(p) ==
  /\ BagIn(p, pending)
  /\ pending' = pending (-) One(p)
  /\ timers' = BagOfAll(LAMBDA t : [ t EXCEPT !.current = FALSE ], timers)
                 (+) One([ m |-> p.m, ip |-> p.ip, due |-> FALSE,
                           current |-> TRUE ])
  /\ lastEvent' = Event("metadataLoaded", "timer")
  /\ UNCHANGED << liveStreams, mode, mounted, detections, isProcessing, workerRef,
                  liveWorkers, streamRef, workerQueue, fetches,
                  now >>

\* clearInterval(intervalRef.current); intervalRef.current = null
ClearInterval == timers (-) SetToBag(intervalRef)

\* streamRef.current = null drops the hook's reference: it calls nothing on
\* the stream, whose tracks stay as they are.
ReleaseStreamStoppingTracks == liveStreams \ {streamRef}
ReleaseStream == liveStreams

\* stopDetection(): setDetections([]), then the isProcessing effect when
\* isProcessing changed.
StopDetection ==
  /\ mounted
  /\ isProcessing' = FALSE
  /\ detections' = IF isProcessing THEN IsProcessingEffect(FALSE) ELSE <<>>
  /\ streamRef' = NoStream
  /\ liveStreams' = ReleaseStream
  /\ timers' = ClearInterval
  /\ lastEvent' = Event("stopDetection", "stopped")
  /\ UNCHANGED << mode, mounted, workerRef, liveWorkers, pending,
                  workerQueue, fetches, now >>

\* One firing of the interval timer t: processFrame(video) of t's closure, in
\* which `mode' and `isProcessing' are the values t's startDetection saw.
\* ctxOk: canvas.getContext('2d') returned a context.
Tick(t, ctxOk) ==
  /\ BagIn(t, timers)
  /\ t.due
  /\ timers' = (timers (-) One(t)) (+) One([ t EXCEPT !.due = FALSE ])
  /\ IF ~t.ip
       THEN /\ lastEvent' = Event("tick", "noop")
            /\ UNCHANGED << workerQueue, fetches >>
     ELSE IF ~ctxOk
       THEN /\ lastEvent' = Event("tick", "noctx")
            /\ UNCHANGED << workerQueue, fetches >>
     ELSE IF t.m = "wasm" /\ workerRef # NoWorker
       THEN /\ Len(workerQueue) < MaxInFlight
            /\ workerQueue' = Append(workerQueue,
                 [ timestamp |-> now, frameId |-> now ])
            /\ lastEvent' = Event("tick", "posted")
            /\ UNCHANGED fetches
     ELSE IF t.m = "server"
       THEN /\ Len(fetches) < MaxInFlight
            /\ fetches' = Append(fetches, [ ts |-> now ])
            /\ lastEvent' = Event("tick", "fetch")
            /\ UNCHANGED workerQueue
     ELSE /\ lastEvent' = Event("tick", "dropped")
          /\ UNCHANGED << workerQueue, fetches >>
  /\ UNCHANGED << liveStreams, mode, mounted, detections, isProcessing, workerRef,
                  liveWorkers, streamRef, pending, now >>

\* workerRef.current.onmessage: the worker answers its oldest message.
WorkerMessage ==
  /\ workerRef # NoWorker
  /\ workerQueue # <<>>
  /\ \E d \in yoloWorkerReply(Head(workerQueue)) :
       detections' = SetDetections(d)
  /\ workerQueue' = Tail(workerQueue)
  /\ lastEvent' = Event("onmessage", "worker")
  /\ UNCHANGED << liveStreams, mode, mounted, isProcessing, workerRef, liveWorkers,
                  streamRef, timers, pending, fetches, now >>

\* The sequence s without its i-th element.
Remove(s, i) == SubSeq(s, 1, i - 1) \o SubSeq(s, i + 1, Len(s))

\* fetch resolves with response.ok and a body.
FetchOk(i) ==
  /\ i \in DOMAIN fetches
  /\ fetches' = Remove(fetches, i)
  /\ \E body \in ServerBodies(fetches[i]) :
       detections' = SetDetections(ResultDetections(body))
  /\ lastEvent' = Event("fetchOk", "server")
  /\ UNCHANGED << liveStreams, mode, mounted, isProcessing, workerRef, liveWorkers,
                  streamRef, timers, pending, workerQueue, now >>

\* fetch resolves with a non-2xx status: console.error only.
FetchHttpError(i) ==
  /\ i \in DOMAIN fetches
  /\ fetches' = Remove(fetches, i)
  /\ lastEvent' = Event("fetchHttpError", "logged")
  /\ UNCHANGED << liveStreams, mode, mounted, detections, isProcessing, workerRef,
                  liveWorkers, streamRef, timers, pending,
                  workerQueue, now >>

\* fetch (or response.json()) rejects: the catch block publishes the mock
\* detections.
FetchRejected(i) ==
  /\ i \in DOMAIN fetches
  /\ fetches' = Remove(fetches, i)
  /\ \E r \in RandomDraws :
       detections' = SetDetections(mockDetections(now, r))
  /\ lastEvent' = Event("fetchRejected", "fallback")
  /\ UNCHANGED << liveStreams, mode, mounted, isProcessing, workerRef, liveWorkers,
                  streamRef, timers, pending, workerQueue, now >>

\* The cleanup of the mode effect: workerRef.current.terminate()
TerminatedWorkersNone == liveWorkers
TerminatedWorkers == liveWorkers \ {workerRef}

\* new Worker(...): workers are named by the smallest number no live worker
\* has.
NewWorker(live) == CHOOSE w \in 1..(Cardinality(live) + 1) : w \notin live

\* The hook is rendered with another mode: the effect's cleanup terminates the
\* worker, the effect constructs a new one in 'wasm' mode.
ChangeMode(m) ==
  /\ mounted
  /\ m # mode
  /\ mode' = m
  /\ workerQueue' = <<>>
  /\ IF m = "wasm"
       THEN /\ Cardinality(TerminatedWorkers) < MaxWorkers
            /\ workerRef' = NewWorker(TerminatedWorkers)
            /\ liveWorkers' = TerminatedWorkers
                                \cup {NewWorker(TerminatedWorkers)}
       ELSE /\ workerRef' = NoWorker
            /\ liveWorkers' = TerminatedWorkers
  /\ lastEvent' = Event("changeMode", "rendered")
  /\ UNCHANGED << liveStreams, mounted, detections, isProcessing, streamRef, timers,
                  pending, fetches, now >>

\* The component unmounts: only the mode effect has a cleanup.
Unmount ==
  /\ mounted
  /\ mounted' = FALSE
  /\ workerRef' = NoWorker
  /\ liveWorkers' = TerminatedWorkers
  /\ workerQueue' = <<>>
  /\ lastEvent' = Event("unmount", "none")
  /\ UNCHANGED << liveStreams, mode, detections, isProcessing, streamRef,
                  timers, pending, fetches, now >>

Next ==
  \/ Advance
  \/ StartDetectionNull
  \/ \E s \in Streams : StartDetection(s)
  \/ \E p \in BagToSet(pending) : MetadataLoaded(p)
  \/ StopDetection
  \/ \E t \in BagToSet(timers), ctxOk \in BOOLEAN : Tick(t, ctxOk)
  \/ WorkerMessage
  \/ \E i \in DOMAIN fetches : FetchOk(i)
  \/ \E i \in DOMAIN fetches : FetchHttpError(i)
  \/ \E i \in DOMAIN fetches : FetchRejected(i)
  \/ \E m \in Modes : ChangeMode(m)
  \/ Unmount

Spec == Init /\ [][Next]_vars

\* The timer callbacks, the clock and the worker run whenever they can; nothing
\* obliges the endpoint to answer, or the video to load its metadata.
LiveSpec ==
  /\ Spec
  /\ WF_vars(Advance)
  /\ WF_vars(\E t \in BagToSet(timers), ctxOk \in BOOLEAN : Tick(t, ctxOk))
  /\ WF_vars(WorkerMessage)

TypeOK ==
  /\ mode \in Modes
  /\ mounted \in BOOLEAN
  /\ isProcessing \in BOOLEAN
  /\ streamRef \in Streams \cup {NoStream}
  /\ workerRef \in liveWorkers \cup {NoWorker}
  /\ liveStreams \subseteq Streams
  /\ now \in 0..(MaxClockSteps * ClockStep)
  /\ BagCardinality(timers) + BagCardinality(pending) <= MaxTimers
  /\ Len(workerQueue) <= MaxInFlight
  /\ Len(fetches) <= MaxInFlight

\* ------------------------------------------------------------------ claims
\* The session is running / idle, as the consumer sees it.
Running == isProcessing
Idle == ~isProcessing

\* C1: at most one submission is in flight per backend (worker, endpoint): a
\* tick that fires while the previous submission is pending is dropped.
C1_AtMostOneInFlight ==
  /\ Len(workerQueue) <= 1
  /\ Len(fetches) <= 1

\* C2: a completion that arrives after stopDetection() is discarded, so the
\* detections stay empty while the session is idle.
C2_LateCompletionDiscarded ==
  Idle => detections = <<>>

\* C3: at most one sampler interval timer is active at any time.
C3_AtMostOneTimer ==
  BagCardinality(timers) <= 1

\* C4: every sampler tick of a running session (that got a canvas context)
\* dispatches its frame to a backend.
C4_RunningTickDispatches ==
  (lastEvent.op = "tick" /\ Running /\ lastEvent.outcome # "noctx")
    => lastEvent.outcome \in {"posted", "fetch"}

\* C5: from stopDetection() until the next startDetection no interval timer is
\* active, also when stop came while a start was awaiting the video metadata.
C5_NoTimerWhileStopped ==
  Idle => timers = EmptyBag

\* capture_ts <= recv_ts <= inference_ts
TimestampsOrdered(d) ==
  d.capture_ts <= d.recv_ts /\ d.recv_ts <= d.inference_ts

\* C6: a Remote submission that fails, by a non-success response or by a
\* transport failure, publishes a non-empty fallback batch with ordered
\* timestamps.
C6_RemoteFailurePublishesFallback ==
  (mounted /\ lastEvent.op \in {"fetchHttpError", "fetchRejected"})
    => /\ lastEvent.outcome = "fallback"
       /\ detections # <<>>
       /\ \A i \in DOMAIN detections : TimestampsOrdered(detections[i])

\* C7: startDetection(null) fails with InvalidStreamError.
C7_NullStreamIsAnError ==
  lastEvent.op = "startDetection(null)"
    => lastEvent.outcome = "InvalidStreamError"

\* C8: stopDetection() tears the backend down: after it no worker is alive.
C8_StopTerminatesWorker ==
  lastEvent.op = "stopDetection" => liveWorkers = {}

\* C9: every Remote submission eventually completes, by a response or by the
\* timeout's fallback.
C9_RemoteSubmissionCompletes ==
  (fetches # <<>>) ~> (fetches = <<>>)

\* 0 <= score <= 1, xmin < xmax, ymin < ymax, coordinates in [0,1], ordered
\* timestamps (scores and coordinates in thousandths)
ValidDetection(d) ==
  /\ 0 <= d.score /\ d.score <= 1000
  /\ d.xmin < d.xmax /\ d.ymin < d.ymax
  /\ \A c \in {d.xmin, d.ymin, d.xmax, d.ymax} : 0 <= c /\ c <= 1000
  /\ TimestampsOrdered(d)

\* C10: every Detection published in detections is valid.
C10_PublishedDetectionsValid ==
  \A i \in DOMAIN detections : ValidDetection(detections[i])

\* C11: the hook never stops or closes the media stream it was given: every
\* stream is as live as its opener left it, whatever the hook has done.
C11_StreamNeverClosed ==
  liveStreams = Streams

\* stopDetection() has cleared the hook's reference while a start is still
\* waiting for its video, and the stream is live.
C11_Witness ==
  /\ lastEvent.op = "stopDetection"
  /\ streamRef = NoStream
  /\ pending # EmptyBag
  /\ liveStreams = Streams

\* The batches the submission completed by this step can have yielded.
CompletedBatches ==
  CASE lastEvent'.op = "onmessage" -> yoloWorkerReply(Head(workerQueue))
    [] lastEvent'.op = "fetchOk" ->
         UNION { { ResultDetections(b) : b \in ServerBodies(fetches[i]) } :
                 i \in { j \in DOMAIN fetches : fetches' = Remove(fetches, j) } }
    [] lastEvent'.op = "fetchRejected" ->
         { mockDetections(now, r) : r \in RandomDraws }
    [] OTHER -> {}

\* C12: while the session is running, the batch of each completed submission
\* is published, so the detections are those of the latest completion, in
\* whatever order the submissions complete.
C12_LatestCompletionWins ==
  [][ (mounted /\ Running
         /\ lastEvent'.op \in {"onmessage", "fetchOk", "fetchRejected"})
        => detections' \in CompletedBatches ]_vars

\* The result of a later request is published while an earlier request is
\* still awaiting its response: completion order is not submission order.
C12_Witness ==
  /\ lastEvent.op = "fetchOk"
  /\ mounted /\ Running
  /\ detections # <<>> /\ fetches # <<>>
  /\ fetches[1].ts < detections[1].frame_id

\* C13: a frame submitted to the Local backend after its worker has been
\* terminated fails with a 'backend stopped' error; it is not silently ignored.
C13_StoppedBackendRejects ==
  (lastEvent.op = "tick" /\ workerRef = NoWorker
     /\ lastEvent.outcome \notin {"noop", "noctx", "fetch"})
    => lastEvent.outcome = "backend stopped"

\* C14: the frameIds of the frames posted to the worker are strictly
\* increasing in submission order.
C14_FrameIdsStrictlyIncrease ==
  \A i, j \in DOMAIN workerQueue :
    i < j => workerQueue[i].frameId < workerQueue[j].frameId

\* The fallback batches the catch block can publish at time t.
FallbackBatches(t) == { mockDetections(t, r) : r \in RandomDraws }

\* C15: the session state tells a fallback batch from a genuine result: the
\* state a genuine server result leaves is never the state a fallback leaves.
C15_FallbackDistinguishable ==
  (mounted /\ lastEvent.op = "fetchOk")
    => detections \notin FallbackBatches(now)

\* The three fixed test boxes: person, phone and bottle, captured at time t.
IsTestBatch(d, t) ==
  /\ Len(d) = 3
  /\ [ i \in 1..3 |-> << d[i].label, d[i].score, d[i].xmin, d[i].ymin,
                          d[i].xmax, d[i].ymax, d[i].capture_ts >> ]
       = << << "person", 930, 100, 100, 400, 700, t >>,
            << "phone",  870, 500, 200, 700, 500, t >>,
            << "bottle", 760, 750, 300, 900, 800, t >> >>

\* C16: whenever isProcessing changes from false to true the detections
\* become the three test detections, and whenever it changes to false they
\* become empty.
C16_TestDetectionsOnStart ==
  [][ /\ (~isProcessing /\ isProcessing') => IsTestBatch(detections', now')
      /\ (isProcessing /\ ~isProcessing') => detections' = <<>> ]_vars

\* A session started from idle, later than the mount, shows the test
\* detections of that moment.
C16_Witness ==
  /\ lastEvent.op = "startDetection"
  /\ now > 0
  /\ BagIn([ m |-> mode, ip |-> FALSE ], pending)
  /\ IsTestBatch(detections, now)

\* C17: while the session is idle no timer tick submits a frame to a backend.
C17_IdleTickSubmitsNothing ==
  (lastEvent.op = "tick" /\ Idle)
    => lastEvent.outcome \notin {"posted", "fetch"}

\* C18: every tick's frame goes to the backend of the hook's current mode:
\* none is posted to the other mode's backend and none is silently lost.
C18_TickFollowsCurrentMode ==
  (mounted /\ lastEvent.op = "tick")
    => /\ lastEvent.outcome = "posted" => mode = "wasm"
       /\ lastEvent.outcome = "fetch" => mode = "server"
       /\ lastEvent.outcome # "dropped"

\* C19: at most one worker is alive; while the hook is mounted a worker is
\* alive exactly when mode is 'wasm', and it is the one workerRef holds; after
\* the unmount none is alive.
C19_OneWorkerIffWasm ==
  /\ Cardinality(liveWorkers) <= 1
  /\ liveWorkers = IF workerRef = NoWorker THEN {} ELSE {workerRef}
  /\ mounted => (liveWorkers # {} <=> mode = "wasm")
  /\ ~mounted => liveWorkers = {}

\* The mode has changed to 'server' while a timer with a 'wasm' closure is
\* running: the cleanup has terminated the worker and cleared workerRef.
C19_Witness ==
  /\ lastEvent.op = "changeMode"
  /\ mode = "server"
  /\ \E t \in BagToSet(timers) : t.m = "wasm"
  /\ workerRef = NoWorker
  /\ liveWorkers = {}

====
